---------------------------- MODULE Spec2Model ----------------------------
(***************************************************************************)
(* Model of src/main.py: the DORA metrics exporter.  A refresh loop        *)
(* fetches workflow runs and commits, runs three calculators (deployment   *)
(* counter, lead time for changes, MTTR) and sets Prometheus gauges.       *)
(*                                                                         *)
(* Timestamps are the strings of the provider ('...T00:00:SSZ'); only the  *)
(* seconds field varies here, so a timestamp is the tuple of the decimal   *)
(* digits of that field.  The code compares timestamps as strings          *)
(* (line 207) and subtracts them after datetime.strptime (lines 158, 168,  *)
(* 212): StrLess and Strptime below model the two separately.              *)
(***************************************************************************)
EXTENDS Integers, Sequences, FiniteSets

VARIABLES
    pc,                     \* position of the main loop / update_metrics
    deployments,            \* update_metrics: deployments (fetched runs)
    commits,                \* update_metrics: commits
    deployment_stats,       \* calculate_deployment_counter: local
    branch_lead_times,      \* calculate_lead_time_for_changes: local
    branch_recovery_times,  \* calculate_mttr: local
    DEPLOYMENT_GAUGE,       \* labelled children of the gauge; <<>> = never set
    LEAD_TIME_GAUGE,
    MTTR_GAUGE,
    errors,                 \* error-level log lines of the current cycle
    entry                   \* history: gauge values on entry to update_metrics

vars == <<pc, deployments, commits, deployment_stats, branch_lead_times,
          branch_recovery_times, DEPLOYMENT_GAUGE, LEAD_TIME_GAUGE,
          MTTR_GAUGE, errors, entry>>

gauges == <<DEPLOYMENT_GAUGE, LEAD_TIME_GAUGE, MTTR_GAUGE>>

locals == <<deployment_stats, branch_lead_times, branch_recovery_times>>

---------------------------------------------------------------------------
(* Program constants *)

DEV_YML == ".github/workflows/dev.yml"

STAGING_YML == ".github/workflows/staging.yml"

PROD_YML == ".github/workflows/prod.yml"

\* line 120: the list the deployment counter tests the path against
tracked_paths == {DEV_YML, STAGING_YML, PROD_YML}

\* lines 149-153
branch_paths ==
    [p \in {DEV_YML, STAGING_YML, PROD_YML} |->
        IF p = DEV_YML THEN "dev" ELSE IF p = STAGING_YML THEN "staging" ELSE "prod"]

\* line 203
valid_branches == {"dev", "staging", "prod"}

\* lines 113-117
initial_deployment_stats ==
    [b \in {"dev", "staging", "prod"} |-> [success |-> 0, failure |-> 0]]

\* lines 146 and 196
empty_branch_lists == [b \in {"dev", "staging", "prod"} |-> <<>>]

---------------------------------------------------------------------------
(* Strings and timestamps *)

\* Python's str < str on digit strings: lexicographic, a proper prefix first
RECURSIVE StrLess(_, _)
StrLess(s, t) ==
    IF t = <<>> THEN FALSE
    ELSE IF s = <<>> THEN TRUE
    ELSE IF s[1] # t[1] THEN s[1] < t[1]
    ELSE StrLess(Tail(s), Tail(t))

\* datetime.strptime(..., '%Y-%m-%dT%H:%M:%SZ') accepts the seconds field
\* as one or two digits, 0..61; anything else raises ValueError
Parses(ts) ==
    \/ Len(ts) = 1 /\ ts[1] \in 0..9
    \/ Len(ts) = 2 /\ ts[1] \in 0..9 /\ ts[2] \in 0..9 /\ 10 * ts[1] + ts[2] <= 61

\* the parsed value, in seconds
Strptime(ts) == IF Len(ts) = 1 THEN ts[1] ELSE 10 * ts[1] + ts[2]

---------------------------------------------------------------------------
(* Arithmetic of the published means: exact fractions <<num, den>> *)

Abs(n) == IF n < 0 THEN -n ELSE n

RECURSIVE GCD(_, _)
GCD(a, b) == IF b = 0 THEN a ELSE GCD(b, a % b)

RECURSIVE Sum(_)
Sum(s) == IF s = <<>> THEN 0 ELSE s[1] + Sum(Tail(s))

\* statistics.mean(times) / sum(times) / len(times), times non-empty
Mean(times) ==
    LET n == Sum(times)
        d == Len(times)
        g == GCD(Abs(n), d)
    IN  <<n \div g, d \div g>>

Zero == <<0, 1>>

---------------------------------------------------------------------------
(* calculate_deployment_counter, lines 119-126: the loop over deployments *)

RECURSIVE CounterLoop(_, _, _)
CounterLoop(runs, i, stats) ==
    IF i > Len(runs) THEN stats
    ELSE LET deployment == runs[i]
             branch == deployment.head_branch
             status == deployment.conclusion
         IN  CounterLoop(runs, i + 1,
                 IF /\ deployment.path \in tracked_paths
                    /\ branch \in DOMAIN stats
                    /\ status \in DOMAIN stats[branch]
                 THEN [stats EXCEPT ![branch][status] = @ + 1]
                 ELSE stats)

---------------------------------------------------------------------------
(* calculate_lead_time_for_changes, lines 156-175 *)

\* lines 166-167: the test a deployment must pass for a commit
LeadMatch(commit_sha, deployment) ==
    /\ deployment.conclusion = "success"
    /\ deployment.path \in DOMAIN branch_paths
    /\ commit_sha = deployment.head_sha

\* a scan without the break of line 175 would end at the last match
RECURSIVE LastMatch(_, _, _)
LastMatch(commit_sha, runs, j) ==
    IF j > Len(runs) THEN 0
    ELSE LET later == LastMatch(commit_sha, runs, j + 1) IN
         IF later # 0 THEN later
         ELSE IF LeadMatch(commit_sha, runs[j]) THEN j ELSE 0

\* lines 160-175: index of the deployment the inner loop breaks at, 0 if none
RECURSIVE FirstMatch(_, _, _)
FirstMatch(commit_sha, runs, j) ==
    IF j > Len(runs) THEN 0
    ELSE IF LeadMatch(commit_sha, runs[j]) THEN j
    ELSE FirstMatch(commit_sha, runs, j + 1)

\* lines 156-175: the outer loop; raised = a strptime raised ValueError
RECURSIVE LeadLoop(_, _, _, _)
LeadLoop(cs, runs, i, times) ==
    IF i > Len(cs) THEN [raised |-> FALSE, times |-> times]
    ELSE IF ~Parses(cs[i].date) THEN [raised |-> TRUE, times |-> times]
    ELSE LET j == FirstMatch(cs[i].sha, runs, 1) IN
         IF j = 0 THEN LeadLoop(cs, runs, i + 1, times)
         ELSE IF ~Parses(runs[j].updated_at) THEN [raised |-> TRUE, times |-> times]
         ELSE LET lead_time == Strptime(runs[j].updated_at) - Strptime(cs[i].date)
                  branch == branch_paths[runs[j].path]
              IN  LeadLoop(cs, runs, i + 1,
                           [times EXCEPT ![branch] = Append(@, lead_time)])

---------------------------------------------------------------------------
(* calculate_mttr, lines 199-214 *)

\* the condition with <= for <: a failure of the same completion time counts
IsPreviousFailureOrSame(r, run, branch) ==
    /\ StrLess(r.updated_at, run.updated_at) \/ r.updated_at = run.updated_at
    /\ r.conclusion = "failure"
    /\ r.head_branch = branch

\* line 207: the list comprehension's condition
IsPreviousFailure(r, run, branch) ==
    /\ StrLess(r.updated_at, run.updated_at)
    /\ r.conclusion = "failure"
    /\ r.head_branch = branch

\* lines 207 and 211: max(previous_failures, key=updated_at) as an index
\* into runs; max keeps the first of equal keys; 0 = the list is empty
RECURSIVE LastFailure(_, _, _, _)
LastFailure(runs, run, j, best) ==
    IF j > Len(runs) THEN best
    ELSE IF /\ IsPreviousFailure(runs[j], run, run.head_branch)
            /\ (best = 0 \/ StrLess(runs[best].updated_at, runs[j].updated_at))
         THEN LastFailure(runs, run, j + 1, j)
         ELSE LastFailure(runs, run, j + 1, best)

\* lines 199-214: the loop over runs
RECURSIVE MttrLoop(_, _, _)
MttrLoop(runs, i, times) ==
    IF i > Len(runs) THEN [raised |-> FALSE, times |-> times]
    ELSE LET run == runs[i] IN
         IF run.conclusion # "success" \/ run.head_branch \notin valid_branches
         THEN MttrLoop(runs, i + 1, times)
         ELSE LET f == LastFailure(runs, run, 1, 0) IN
              IF f = 0 THEN MttrLoop(runs, i + 1, times)
              ELSE IF ~Parses(run.updated_at) \/ ~Parses(runs[f].updated_at)
                   THEN [raised |-> TRUE, times |-> times]
              ELSE LET recovery_time ==
                           Strptime(run.updated_at) - Strptime(runs[f].updated_at)
                   IN  MttrLoop(runs, i + 1,
                           [times EXCEPT ![run.head_branch] = Append(@, recovery_time)])

---------------------------------------------------------------------------
(* Bounds and input domains *)

MaxPages == 2

MaxCommitPages == 1

SeqsUpTo(S, n) == UNION {[1..k -> S] : k \in 0..n}

T1 == <<0, 1>>

T2 == <<0, 2>>

T3 == <<1, 0>>

Malformed == <<>>

\* runs the provider may serve in the refresh loop
CycleRuns ==
    [path : {DEV_YML}, head_branch : {"dev"}, conclusion : {"failure"},
     head_sha : {"a"}, updated_at : {T1}]
    \cup
    [path : {DEV_YML}, head_branch : {"dev"}, conclusion : {"success"},
     head_sha : {"a"}, updated_at : {T2}]

CycleCommits == [sha : {"a"}, date : {T1, Malformed}]

\* Inputs of the calculators run on their own.  A calculator's input sets
\* vary the fields it reads and hold the others fixed.
MaxCalcRuns == 2

MaxCalcCommits == 1

CalcRuns ==
    [path : {DEV_YML, PROD_YML, "other.yml"}, head_branch : {"dev", "prod", "main"},
     conclusion : {"success", "failure", "cancelled"}, head_sha : {"a"},
     updated_at : {T1, T2, Malformed}]

CalcCommits == [sha : {"a"}, date : {T1}]

MaxLeadRuns == 2

MaxLeadCommits == 2

LeadRuns ==
    [path : {DEV_YML, PROD_YML, "other.yml"}, head_branch : {"dev"},
     conclusion : {"success", "failure"}, head_sha : {"a", "b"},
     updated_at : {T1, T3}]

LeadCommits == [sha : {"a", "b"}, date : {T2}] \cup [sha : {"a"}, date : {Malformed}]

MaxMttrRuns == 3

MttrRuns ==
    [path : {DEV_YML}, head_branch : {"dev", "prod", "main"},
     conclusion : {"success", "failure", "cancelled"}, head_sha : {"a"},
     updated_at : {T1, T2, T3}]

Branches == {"dev", "staging", "prod"}

Statuses == {"success", "failure"}

---------------------------------------------------------------------------
(* Gauges *)

\* a labelled child that labels() never created
NeverSet == <<>>

\* a child accumulating what it is given, as Gauge.inc would
GaugeInc(child, value) ==
    IF child # NeverSet /\ Len(value) = 1 THEN <<child[1] + value[1]>> ELSE value

\* Gauge.labels(...).set(value), lines 131, 181, 184, 220, 223: the child
\* holds the value, whatever it held.  A count is <<c>>, a mean <<num, den>>.
GaugeSet(child, value) == value

\* a publication without the else branch: the child keeps what it held
PublishMeanNoElse(child, times) ==
    IF times # <<>> THEN GaugeSet(child, Mean(times)) ELSE child

\* lines 179-184 and 218-223: the mean of the times, or 0 when there are none
PublishMean(child, times) ==
    IF times # <<>> THEN GaugeSet(child, Mean(times)) ELSE GaugeSet(child, Zero)

---------------------------------------------------------------------------
(* The refresh loop, lines 231-255 *)

Init ==
    /\ pc = "fetch_runs"
    /\ deployments = <<>>
    /\ commits = <<>>
    /\ deployment_stats = initial_deployment_stats
    /\ branch_lead_times = empty_branch_lists
    /\ branch_recovery_times = empty_branch_lists
    /\ DEPLOYMENT_GAUGE = [b \in Branches |-> [s \in Statuses |-> NeverSet]]
    /\ LEAD_TIME_GAUGE = [b \in Branches |-> NeverSet]
    /\ MTTR_GAUGE = [b \in Branches |-> NeverSet]
    /\ errors = {}
    /\ entry = <<DEPLOYMENT_GAUGE, LEAD_TIME_GAUGE, MTTR_GAUGE>>

\* lines 74-95: pages are fetched until there is no next page; a
\* RequestException is logged and ends the loop, and what was fetched is
\* returned.  A page carries one run here.
FetchWorkflowRuns ==
    /\ pc = "fetch_runs"
    /\ \E pages \in SeqsUpTo(CycleRuns, MaxPages), failed \in BOOLEAN :
         \E n \in 0..Len(pages) :
            /\ ~failed => n = Len(pages)
            /\ deployments' = SubSeq(pages, 1, n)
            /\ errors' = IF failed THEN errors \cup {"Error fetching workflow runs"}
                                   ELSE errors
    /\ pc' = "fetch_commits"
    /\ UNCHANGED <<commits, locals, gauges, entry>>

\* line 88: a response without 'workflow_runs' raises KeyError, which is no
\* RequestException and leaves fetch_workflow_runs and update_metrics
FetchWorkflowRunsRaises ==
    /\ pc = "fetch_runs"
    /\ pc' = "except"
    /\ UNCHANGED <<deployments, commits, locals, gauges, errors, entry>>

\* lines 48-69
FetchCommits ==
    /\ pc = "fetch_commits"
    /\ \E pages \in SeqsUpTo(CycleCommits, MaxCommitPages), failed \in BOOLEAN :
         \E n \in 0..Len(pages) :
            /\ ~failed => n = Len(pages)
            /\ commits' = SubSeq(pages, 1, n)
            /\ errors' = IF failed THEN errors \cup {"Error fetching commits"}
                                   ELSE errors
    /\ pc' = "counter"
    /\ UNCHANGED <<deployments, locals, gauges, entry>>

\* lines 100-133: the loop, then every child of the gauge is set
CalculateDeploymentCounter ==
    /\ pc = "counter"
    /\ LET stats == CounterLoop(deployments, 1, initial_deployment_stats) IN
         /\ deployment_stats' = stats
         /\ DEPLOYMENT_GAUGE' =
               [b \in DOMAIN stats |->
                  [s \in DOMAIN stats[b] |->
                     GaugeSet(DEPLOYMENT_GAUGE[b][s], <<stats[b][s]>>)]]
    /\ pc' = "lead"
    /\ UNCHANGED <<deployments, commits, branch_lead_times, branch_recovery_times,
                   LEAD_TIME_GAUGE, MTTR_GAUGE, errors, entry>>

\* lines 141-185: a ValueError of strptime leaves the function, and
\* update_metrics, before any child is set
CalculateLeadTime ==
    /\ pc = "lead"
    /\ LET r == LeadLoop(commits, deployments, 1, empty_branch_lists) IN
         IF r.raised
         THEN /\ pc' = "except"
              /\ UNCHANGED <<branch_lead_times, LEAD_TIME_GAUGE>>
         ELSE /\ pc' = "mttr"
              /\ branch_lead_times' = r.times
              /\ LEAD_TIME_GAUGE' =
                    [b \in DOMAIN r.times |-> PublishMean(LEAD_TIME_GAUGE[b], r.times[b])]
    /\ UNCHANGED <<deployments, commits, deployment_stats, branch_recovery_times,
                   DEPLOYMENT_GAUGE, MTTR_GAUGE, errors, entry>>

\* lines 191-224; update_metrics returns after it
CalculateMttr ==
    /\ pc = "mttr"
    /\ LET r == MttrLoop(deployments, 1, empty_branch_lists) IN
         IF r.raised
         THEN /\ pc' = "except"
              /\ UNCHANGED <<branch_recovery_times, MTTR_GAUGE>>
         ELSE /\ pc' = "updated"
              /\ branch_recovery_times' = r.times
              /\ MTTR_GAUGE' =
                    [b \in DOMAIN r.times |-> PublishMean(MTTR_GAUGE[b], r.times[b])]
    /\ UNCHANGED <<deployments, commits, deployment_stats, branch_lead_times,
                   DEPLOYMENT_GAUGE, LEAD_TIME_GAUGE, errors, entry>>

\* what update_metrics holds is gone once it is left
DropLocals ==
    /\ deployments' = <<>>
    /\ commits' = <<>>
    /\ deployment_stats' = initial_deployment_stats
    /\ branch_lead_times' = empty_branch_lists
    /\ branch_recovery_times' = empty_branch_lists

\* line 251
LogUpdated ==
    /\ pc = "updated"
    /\ pc' = "sleep"
    /\ DropLocals
    /\ UNCHANGED <<gauges, errors, entry>>

\* a handler that lets the exception through: the process ends
LogErrorUncaught ==
    /\ pc = "except"
    /\ pc' = "terminated"
    /\ errors' = errors \cup {"Traceback"}
    /\ DropLocals
    /\ UNCHANGED <<gauges, entry>>

\* lines 252-253: every Exception is caught and logged
LogError ==
    /\ pc = "except"
    /\ pc' = "sleep"
    /\ errors' = errors \cup {"Error updating metrics"}
    /\ DropLocals
    /\ UNCHANGED <<gauges, entry>>

\* line 255 and the loop's next iteration, line 248
Sleep ==
    /\ pc = "sleep"
    /\ pc' = "fetch_runs"
    /\ errors' = {}
    /\ entry' = gauges
    /\ UNCHANGED <<deployments, commits, locals, gauges>>

Next ==
    \/ FetchWorkflowRuns
    \/ FetchWorkflowRunsRaises
    \/ FetchCommits
    \/ CalculateDeploymentCounter
    \/ CalculateLeadTime
    \/ CalculateMttr
    \/ LogUpdated
    \/ LogError
    \/ Sleep

Spec == Init /\ [][Next]_vars

\* the loop is sequential code: a step that can be taken is taken
FairSpec == Spec /\ WF_vars(Next)

---------------------------------------------------------------------------
(* The calculators on their own: update_metrics lines 238-240 from given    *)
(* collections, and each of the last two alone                              *)

InitGiven(position, runs, cs) ==
    /\ pc = position
    /\ deployments \in runs
    /\ commits \in cs
    /\ deployment_stats = initial_deployment_stats
    /\ branch_lead_times = empty_branch_lists
    /\ branch_recovery_times = empty_branch_lists
    /\ DEPLOYMENT_GAUGE = [b \in Branches |-> [s \in Statuses |-> NeverSet]]
    /\ LEAD_TIME_GAUGE = [b \in Branches |-> NeverSet]
    /\ MTTR_GAUGE = [b \in Branches |-> NeverSet]
    /\ errors = {}
    /\ entry = <<DEPLOYMENT_GAUGE, LEAD_TIME_GAUGE, MTTR_GAUGE>>

InitCalc ==
    InitGiven("counter", SeqsUpTo(CalcRuns, MaxCalcRuns),
              SeqsUpTo(CalcCommits, MaxCalcCommits))

NextCalc ==
    \/ CalculateDeploymentCounter
    \/ CalculateLeadTime
    \/ CalculateMttr

SpecCalc == InitCalc /\ [][NextCalc]_vars

InitLead ==
    InitGiven("lead", SeqsUpTo(LeadRuns, MaxLeadRuns),
              SeqsUpTo(LeadCommits, MaxLeadCommits))

NextLead == CalculateLeadTime

SpecLead == InitLead /\ [][NextLead]_vars

InitMttr == InitGiven("mttr", SeqsUpTo(MttrRuns, MaxMttrRuns), {<<>>})

NextMttr == CalculateMttr

SpecMttr == InitMttr /\ [][NextMttr]_vars

---------------------------------------------------------------------------
(* Properties *)

TransportErrors == {"Error fetching workflow runs", "Error fetching commits"}

\* C1: once a fetch has met a transport failure in a cycle, every gauge
\* keeps the value it had when the cycle started.
C1_TransportFailureKeepsGauges ==
    errors \cap TransportErrors # {} => gauges = entry

\* C2: a cycle that ended in a failure (a calculator raised on a malformed
\* record) leaves every gauge at the value it had when the cycle started.
C2_FailedCycleKeepsGauges ==
    "Error updating metrics" \in errors => gauges = entry

\* C3: after any cycle, ended by a failure (caught, at "except") or
\* completed (at "updated"), the loop eventually starts the next cycle.
C3_LoopContinues ==
    [](pc \in {"except", "updated"} => <>(pc = "fetch_runs"))

\* C3 witness: a calculator or fetch failure was caught and logged, and the
\* loop is in its wait before the next cycle
C3_Witness ==
    pc = "sleep" /\ "Error updating metrics" \in errors /\ gauges # entry

Classified(r) == r.path \in DOMAIN branch_paths

\* C4: the runs whose path is not in the path table take part in no
\* calculation: each calculator's result is its result on the collection
\* without them.
C4_UnclassifiedRunsDropped ==
    LET kept == SelectSeq(deployments, Classified) IN
    /\ pc = "lead" =>
          deployment_stats = CounterLoop(kept, 1, initial_deployment_stats)
    /\ pc = "mttr" =>
          branch_lead_times = LeadLoop(commits, kept, 1, empty_branch_lists).times
    /\ pc = "updated" =>
          branch_recovery_times = MttrLoop(kept, 1, empty_branch_lists).times

RunsOfPathBranch(b, status) ==
    {i \in DOMAIN deployments :
        /\ Classified(deployments[i])
        /\ branch_paths[deployments[i].path] = b
        /\ deployments[i].conclusion = status}

\* C5: after the counter has run, the success (failure) count of every
\* branch b is the number of runs whose path maps to b with conclusion
\* success (failure).
C5_CountsByPathBranch ==
    pc = "lead" =>
        \A b \in Branches, st \in Statuses :
            DEPLOYMENT_GAUGE[b][st] = <<Cardinality(RunsOfPathBranch(b, st))>>

\* the provider's format: the seconds field has two digits
WellFormed(ts) == Len(ts) = 2

\* chronological time of a well-formed timestamp
Seconds(ts) == 10 * ts[1] + ts[2]

\* chronological order of well-formed timestamps
Earlier(s, t) == WellFormed(s) /\ WellFormed(t) /\ Seconds(s) < Seconds(t)

CountQualifies(b, st) ==
    \E i \in DOMAIN deployments :
        /\ deployments[i].path \in tracked_paths
        /\ deployments[i].head_branch = b
        /\ deployments[i].conclusion = st

LeadQualifies(b) ==
    \E c \in DOMAIN commits, i \in DOMAIN deployments :
        /\ deployments[i].conclusion = "success"
        /\ Classified(deployments[i])
        /\ branch_paths[deployments[i].path] = b
        /\ deployments[i].head_sha = commits[c].sha

MttrQualifies(b) ==
    \E i, j \in DOMAIN deployments :
        /\ deployments[i].conclusion = "success"
        /\ deployments[i].head_branch = b
        /\ deployments[j].conclusion = "failure"
        /\ deployments[j].head_branch = b
        /\ Earlier(deployments[j].updated_at, deployments[i].updated_at)

\* C6: when a cycle has completed, every tracked branch has its four gauges
\* set, and a gauge of a branch with no qualifying event in the cycle's
\* collections is 0, whatever it held before.
C6_AllBranchesSetZeroWhenNoEvents ==
    pc = "updated" =>
        \A b \in Branches :
            /\ \A st \in Statuses :
                  /\ DEPLOYMENT_GAUGE[b][st] # NeverSet
                  /\ ~CountQualifies(b, st) => DEPLOYMENT_GAUGE[b][st] = <<0>>
            /\ LEAD_TIME_GAUGE[b] # NeverSet
            /\ ~LeadQualifies(b) => LEAD_TIME_GAUGE[b] = Zero
            /\ MTTR_GAUGE[b] # NeverSet
            /\ ~MttrQualifies(b) => MTTR_GAUGE[b] = Zero

\* C6 witness: a completed cycle over empty collections, entered with a
\* mean lead time of dev that was set and not 0, has left it 0
C6_Witness ==
    /\ pc = "updated"
    /\ deployments = <<>>
    /\ entry[2]["dev"] \notin {NeverSet, Zero}
    /\ LEAD_TIME_GAUGE["dev"] = Zero
    /\ LEAD_TIME_GAUGE["staging"] = Zero
    /\ DEPLOYMENT_GAUGE["dev"]["success"] = <<0>>

\* the failed runs on r's branch that completed strictly before run i
PrecedingFailures(i) ==
    {j \in DOMAIN deployments :
        /\ deployments[j].conclusion = "failure"
        /\ deployments[j].head_branch = deployments[i].head_branch
        /\ Earlier(deployments[j].updated_at, deployments[i].updated_at)}

SuccessOn(i, b) ==
    deployments[i].conclusion = "success" /\ deployments[i].head_branch = b

MaxOf(S) == CHOOSE x \in S : \A y \in S : y <= x

LatestFailureTime(i) ==
    MaxOf({Seconds(deployments[j].updated_at) : j \in PrecedingFailures(i)})

\* run i is the next successful run after one of its preceding failures:
\* no other successful run of the branch completed between the two
NextSuccessAfterFailure(i) ==
    \E j \in PrecedingFailures(i) :
        ~\E k \in DOMAIN deployments :
            /\ k # i
            /\ SuccessOn(k, deployments[i].head_branch)
            /\ Earlier(deployments[j].updated_at, deployments[k].updated_at)
            /\ \/ Earlier(deployments[k].updated_at, deployments[i].updated_at)
               \/ deployments[k].updated_at = deployments[i].updated_at /\ k < i

\* C7: the recovery samples of a branch are those of the successful runs
\* that are the next success after a failure, so that no failure is paired
\* twice: as many samples as such runs, and no more than the failed runs.
C7_SampleIsNextSuccess ==
    pc = "updated" =>
        \A b \in Branches :
            /\ Len(branch_recovery_times[b]) =
                  Cardinality({i \in DOMAIN deployments :
                                  SuccessOn(i, b) /\ NextSuccessAfterFailure(i)})
            /\ Len(branch_recovery_times[b]) <=
                  Cardinality({j \in DOMAIN deployments :
                                  /\ deployments[j].conclusion = "failure"
                                  /\ deployments[j].head_branch = b})

\* what a completed cycle over the collections publishes
Snapshot(cs, runs) ==
    LET stats == CounterLoop(runs, 1, initial_deployment_stats)
        lead == LeadLoop(cs, runs, 1, empty_branch_lists).times
        mttr == MttrLoop(runs, 1, empty_branch_lists).times
    IN  <<[b \in Branches |-> [st \in Statuses |-> <<stats[b][st]>>]],
          [b \in Branches |-> IF lead[b] = <<>> THEN Zero ELSE Mean(lead[b])],
          [b \in Branches |-> IF mttr[b] = <<>> THEN Zero ELSE Mean(mttr[b])]>>

\* C8: the gauges a completed cycle leaves are a function of the commits
\* and runs fetched in that cycle alone, whatever the gauges held when the
\* cycle started.
C8_GaugesFunctionOfCycleInput ==
    pc = "updated" => gauges = Snapshot(commits, deployments)

\* C8 witness: a completed cycle entered with 2 successes counted for dev
\* has left a smaller count, and a mean lead time of 0 where it was not
C8_Witness ==
    /\ pc = "updated"
    /\ entry[1]["dev"]["success"] = <<2>>
    /\ DEPLOYMENT_GAUGE["dev"]["success"] = <<1>>
    /\ entry[2]["dev"] \notin {NeverSet, Zero}
    /\ LEAD_TIME_GAUGE["dev"] = Zero

\* the runs a commit's scan can stop at
MatchingRuns(c) ==
    {j \in DOMAIN deployments :
        /\ deployments[j].conclusion = "success"
        /\ Classified(deployments[j])
        /\ deployments[j].head_sha = commits[c].sha}

MinOf(S) == CHOOSE x \in S : \A y \in S : x <= y

\* the samples of branch b: one per commit, in the order of the commits,
\* whose first matching run is on b
ExpectedLeadTimes(b) ==
    LET f[k \in 0..Len(commits)] ==
            IF k = 0 THEN <<>>
            ELSE IF /\ MatchingRuns(k) # {}
                    /\ branch_paths[deployments[MinOf(MatchingRuns(k))].path] = b
                 THEN Append(f[k - 1],
                             Seconds(deployments[MinOf(MatchingRuns(k))].updated_at)
                                 - Seconds(commits[k].date))
                 ELSE f[k - 1]
    IN  f[Len(commits)]

\* C9: when the lead-time calculator has run, the samples of every branch
\* are, commit by commit, the completion time of the commit's first
\* matching run minus the commit's authoring time, under that run's branch;
\* commits without a matching run and later matching runs add nothing.
C9_LeadSampleFromFirstMatch ==
    pc = "mttr" => \A b \in Branches : branch_lead_times[b] = ExpectedLeadTimes(b)

\* C9 witness: a commit with two matching runs on two branches has one
\* sample, negative, under the branch of the first
C9_Witness ==
    /\ pc = "mttr"
    /\ commits = <<[sha |-> "a", date |-> T2]>>
    /\ Len(deployments) = 2
    /\ deployments[1] = [path |-> PROD_YML, head_branch |-> "dev",
                          conclusion |-> "success", head_sha |-> "a", updated_at |-> T1]
    /\ deployments[2] = [path |-> DEV_YML, head_branch |-> "dev",
                          conclusion |-> "success", head_sha |-> "a", updated_at |-> T3]
    /\ branch_lead_times["prod"] = <<-1>>
    /\ branch_lead_times["dev"] = <<>>

\* the samples of branch b: one per successful run of b, in the order of
\* the runs, that has a preceding failure
ExpectedRecoveryTimes(b) ==
    LET f[k \in 0..Len(deployments)] ==
            IF k = 0 THEN <<>>
            ELSE IF SuccessOn(k, b) /\ PrecedingFailures(k) # {}
                 THEN Append(f[k - 1],
                             Seconds(deployments[k].updated_at) - LatestFailureTime(k))
                 ELSE f[k - 1]
    IN  f[Len(deployments)]

\* C10: when the recovery-time calculator has run, every successful run of
\* a tracked branch with a failed run of the branch strictly earlier has
\* exactly one sample, its completion time minus the latest such failure's;
\* the other runs have none, in whatever order the runs come.
C10_RecoveryFromLatestEarlierFailure ==
    pc = "updated" =>
        \A b \in Branches : branch_recovery_times[b] = ExpectedRecoveryTimes(b)

\* C10 witness: a success listed before two earlier failures of its branch
\* and beside a failure of its own completion time has the one sample
C10_Witness ==
    /\ pc = "updated"
    /\ Len(deployments) = 3
    /\ deployments[1].conclusion = "success" /\ deployments[1].updated_at = T3
    /\ deployments[2].conclusion = "failure" /\ deployments[2].updated_at = T2
    /\ deployments[3].conclusion = "failure" /\ deployments[3].updated_at = T1
    /\ \A i \in 1..3 : deployments[i].head_branch = "prod"
    /\ branch_recovery_times["prod"] = <<8>>

===========================================================================
